---- MODULE Spec2Model ----
(***************************************************************************)
(* State-machine model of the LitSense dashboard (src/app.py).  One step   *)
(* of the model is one run of the Streamlit script from top to bottom      *)
(* (a "render"), driven by one user input and by the outcomes of the       *)
(* external collaborators (OpenAlex, the generative model).                *)
(*                                                                         *)
(* Python values that take part in equality, truthiness and str() are      *)
(* encoded as records [k, v]: k is the Python type, v the text str() would *)
(* print, so that 5 and "5" are different values with the same str().      *)
(*                                                                         *)
(* Besides the dashboard session (Spec) the module has sessions that start *)
(* with a filled reading list (ReadingListSpec), sessions in which OpenAlex*)
(* omits work ids (IdLessSpec), and the adapter functions called alone:    *)
(* load_local_papers on a corpus (LocalCorpusSpec), the normalization of   *)
(* one raw record, including search_semantic_scholar of                    *)
(* src/literature_review_app.py (NormalizeSpec), and ranking and           *)
(* clustering (RankClusterSpec).                                           *)
(*                                                                         *)
(* The literature review page (src/literature_review_app.py) is a second   *)
(* Streamlit script with its own session; its sessions are LitSpec.        *)
(***************************************************************************)
EXTENDS Integers, Sequences, FiniteSets, TLC

(* ------------------------------ bounds --------------------------------- *)
\* longest reading list the Add to List button may still extend
MaxList == 2
\* most papers that may get a feedback entry (one is created per paper viewed)
MaxFeedback == 1
\* most user inputs (edits, clicks, switches) of one session
MaxInputs == 5
\* longest reading list a session of ReadingListSpec starts with
MaxStartList == 3
\* most records of a papers.json given to load_local_papers
MaxCorpus == 3
\* most numbers in one reply of the generative model
MaxReply == 2
\* most user inputs of one session of the literature review page
MaxLitInputs == 4

(* --------------------------- Python values ----------------------------- *)
None == [k |-> "none", v |-> ""]
PyInt(s) == [k |-> "int", v |-> s]
PyStr(s) == [k |-> "str", v |-> s]

\* a list or dict, v being its literal
PyList(s) == [k |-> "list", v |-> s]
PyDict(s) == [k |-> "dict", v |-> s]

\* bool(x): None, 0, "", [] and {} are falsy
Truthy(x) ==
    ~(\/ x.k = "none"
      \/ (x.k = "int" /\ x.v = "0")
      \/ (x.k = "str" /\ x.v = "")
      \/ (x.k = "list" /\ x.v = "[]")
      \/ (x.k = "dict" /\ x.v = "{}"))

\* Python `a or b`
PyOr(a, b) == IF Truthy(a) THEN a ELSE b

\* str(x), as used by f-strings and by the string-coerced comparison
Str(x) == IF x.k = "none" THEN "None" ELSE x.v

\* isinstance(x, str) and x.startswith('W'), over the ids of the universe
OpenAlexIds == {"W1", "W2"}
StartsWithW(x) == x.k = "str" /\ x.v \in OpenAlexIds

\* hash(f"{title}_{year}"): an int determined by the formatted string
TitleYearHash(title, year) == PyInt("h(" \o title \o "_" \o year \o ")")

\* str.lower() over the query vocabulary
Lower(q) == IF q = "Q1" THEN "q1" ELSE q

(* ------------------------- universe of inputs -------------------------- *)
\* raw OpenAlex works: id is the id with the URL prefix removed, "" if absent
RawW1a == [id |-> "W1", display_name |-> "A", publication_year |-> "2020", cited_by_count |-> 1]
RawW1b == [id |-> "W1", display_name |-> "A revised", publication_year |-> "2021", cited_by_count |-> 2]
RawW2 == [id |-> "W2", display_name |-> "A", publication_year |-> "2020", cited_by_count |-> 1]

\* what one call of the OpenAlex API may produce
SearchOutcomes ==
    { [status |-> "error", results |-> <<>>],
      [status |-> "ok", results |-> <<>>],
      [status |-> "ok", results |-> <<RawW1a, RawW2>>],
      [status |-> "ok", results |-> <<RawW1b>>] }
NoCall == [status |-> "none", results |-> <<>>]

\* works that come without an id: two different works, same title and year
RawN1 == [id |-> "", display_name |-> "A", publication_year |-> "2020", cited_by_count |-> 3]
RawN2 == [id |-> "", display_name |-> "A", publication_year |-> "2020", cited_by_count |-> 4]

\* what one call of the OpenAlex API may produce when works lack their id
IdLessOutcomes ==
    { [status |-> "error", results |-> <<>>],
      [status |-> "ok", results |-> <<RawN1, RawN2>>],
      [status |-> "ok", results |-> <<RawW1a, RawN1>>],
      [status |-> "ok", results |-> <<RawN2>>] }

\* papers.json: the "references" list; id "missing" stands for an absent key
Missing == [k |-> "missing", v |-> ""]
RawLocal ==
    << [id |-> PyInt("0"), title |-> "L0", year |-> "2019", text |-> {"a"}],
       [id |-> PyInt("5"), title |-> "L5", year |-> "2019", text |-> {"a"}],
       [id |-> PyStr("5"), title |-> "L5s", year |-> "2019", text |-> {"b"}] >>

\* text the user may type
OnlineQueries == {"", "q1", "Q1"}
LocalFilters == {"", "a", "b"}
Notes == {"n1"}

\* replies of the generative model: the numbers it lists, or a failure
NoRank == [ok |-> FALSE, nums |-> <<>>]
RankReplies == { NoRank, [ok |-> TRUE, nums |-> <<2, 1>>] }
NoCluster == [ok |-> FALSE, groups |-> <<>>]
ClusterReplies ==
    { NoCluster, [ok |-> TRUE, groups |-> << [name |-> "c1", nums |-> <<1, 2, 3>>] >>] }

(* ---------------------------- normalization ---------------------------- *)
\* search_openalex: one paper_obj from one raw work
OpenAlexRecord(raw) ==
    LET openalex_id == raw.id
        unique_id == IF openalex_id # "" THEN PyStr(openalex_id)
                     ELSE TitleYearHash(raw.display_name, raw.publication_year)
    IN  [ paperId |-> PyStr(openalex_id), id |-> unique_id,
          title |-> raw.display_name, year |-> raw.publication_year,
          citation_count |-> raw.cited_by_count, text |-> {} ]

\* search_openalex: the list it returns for one API outcome
search_openalex(outcome) ==
    IF outcome.status = "ok"
    THEN [i \in 1..Len(outcome.results) |-> OpenAlexRecord(outcome.results[i])]
    ELSE <<>>

\* load_local_papers: normalized local corpus (no paperId key: get gives None)
LocalRecord(p, idx) ==
    [ paperId |-> None,
      id |-> IF p.id = Missing THEN PyInt(ToString(idx)) ELSE p.id,
      title |-> p.title, year |-> p.year, citation_count |-> 0, text |-> p.text ]

\* the normalized list for the "references" of a papers.json
NormalizeLocal(references) ==
    [i \in 1..Len(references) |-> LocalRecord(references[i], i)]

load_local_papers == NormalizeLocal(RawLocal)

(* ------------------------------ identity ------------------------------- *)
\* an identity made of title and year alone
TitleYearIdentity(p) == TitleYearHash(p.title, p.year)

\* p.get('paperId') or p.get('id') or hash(title_year): store, display dedup,
\* ranked dedup and cluster View all use this expression
Identity(p) == PyOr(PyOr(p.paperId, p.id), TitleYearHash(p.title, p.year))

\* Local Review Queue View button id
LocalQueueId(p) ==
    LET pid == PyOr(p.paperId, p.id)
    IN  IF pid = None THEN TitleYearHash(p.title, p.year) ELSE pid

\* Online Review Queue View button id, also the id of the resolution loop
OnlineQueueId(p) ==
    IF Truthy(p.paperId) /\ StartsWithW(p.paperId) THEN p.paperId
    ELSE LET pid == PyOr(p.paperId, p.id)
         IN  IF pid = None THEN TitleYearHash(p.title, p.year) ELSE pid

\* one candidate against the stored id: the four strategies of the loop
Matches(p, selected_id) ==
    LET paper_id == OnlineQueueId(p)
        title_hash == TitleYearHash(p.title, p.year)
    IN  \/ paper_id = selected_id
        \/ Truthy(paper_id) /\ Truthy(selected_id) /\ Str(paper_id) = Str(selected_id)
        \/ StartsWithW(selected_id) /\ p.paperId = selected_id
        \/ title_hash = selected_id
        \/ Truthy(selected_id) /\ Str(title_hash) = Str(selected_id)

\* the resolution loop: first candidate that matches, as a list of 0 or 1
RECURSIVE Resolve(_, _)
Resolve(all_papers, selected_id) ==
    IF all_papers = <<>> THEN <<>>
    ELSE IF Matches(Head(all_papers), selected_id) THEN <<Head(all_papers)>>
    ELSE Resolve(Tail(all_papers), selected_id)

(* ------------------------------ dedup ---------------------------------- *)
IdentitiesOf(list) == {Identity(list[i]) : i \in 1..Len(list)}

\* append the papers whose identity is not in seen_ids yet
RECURSIVE AppendUnseen(_, _, _)
AppendUnseen(acc, seen_ids, papers) ==
    IF papers = <<>> THEN acc
    ELSE LET p == Head(papers)
         IN  IF Identity(p) \in seen_ids
             THEN AppendUnseen(acc, seen_ids, Tail(papers))
             ELSE AppendUnseen(Append(acc, p), seen_ids \cup {Identity(p)}, Tail(papers))

UpsertNoCheck(all_loaded, papers) == all_loaded \o papers

\* all_loaded_papers update
Upsert(all_loaded, papers) == AppendUnseen(all_loaded, IdentitiesOf(all_loaded), papers)

\* duplicate removal of a displayed list
Unique(papers) == AppendUnseen(<<>>, {}, papers)

(* ------------------------------ AI adapters ---------------------------- *)
RangeOf(seq) == {seq[i] : i \in 1..Len(seq)}

\* a ranking that hands back nothing when the model call fails
RankOrNothing(papers, reply) ==
    IF papers = <<>> \/ ~reply.ok THEN <<>>
    ELSE LET valid == SelectSeq(reply.nums, LAMBDA n : 1 <= n /\ n <= Len(papers))
         IN  [i \in 1..Len(valid) |-> papers[valid[i]]]

\* rank_papers_by_relevance; reply numbers are 1-based as in the prompt
rank_papers_by_relevance(papers, reply) ==
    IF papers = <<>> \/ ~reply.ok THEN papers
    ELSE LET valid == SelectSeq(reply.nums, LAMBDA n : 1 <= n /\ n <= Len(papers))
             ranked == [i \in 1..Len(valid) |-> papers[valid[i]]]
             rest == SelectSeq([i \in 1..Len(papers) |-> i],
                               LAMBDA i : i \notin RangeOf(reply.nums))
             remaining == [i \in 1..Len(rest) |-> papers[rest[i]]]
         IN  ranked \o remaining

\* cluster_papers: member indices are 0-based, int(n) - 1 for n <= len(papers)
cluster_papers(papers, reply) ==
    IF papers = <<>> \/ ~reply.ok THEN <<>>
    ELSE [g \in 1..Len(reply.groups) |->
            LET kept == SelectSeq(reply.groups[g].nums, LAMBDA n : n <= Len(papers))
            IN  [ name |-> reply.groups[g].name,
                  papers |-> [i \in 1..Len(kept) |-> kept[i] - 1] ]]

(* ------------------------------- state --------------------------------- *)
VARIABLES
    key_configured,        \* some GEMINI_API_KEY_n is set in the environment
    selected_papers,       \* st.session_state.selected_papers (reading list)
    cached_papers,         \* st.session_state.cached_papers: query.lower() -> list
    last_search_query,     \* st.session_state.last_search_query
    selected_paper_id,     \* st.session_state.selected_paper_id
    paper_feedback,        \* st.session_state.paper_feedback: str(id) -> entry
    clusters,              \* st.session_state.clusters
    ranked_papers,         \* st.session_state.ranked_papers
    last_data_source,      \* st.session_state.last_data_source ("None" if None)
    all_loaded_papers,     \* st.session_state.all_loaded_papers
    current_papers,        \* st.session_state.current_papers (<<>> if deleted)
    data_source_selector,  \* radio widget
    main_search,           \* text widget of Search Online
    local_search,          \* text widget of Local Papers
    shown,                 \* keys of the buttons the last render displayed
    run_pending,           \* a script run is due (first run, or st.rerun())
    inputs,                \* number of user inputs so far
    ev,                    \* what the last render did (history)
    call,                  \* an adapter function and the arguments it is given
    result,                \* what that call returned
    \* session of src/literature_review_app.py
    articles_data,         \* st.session_state.articles_data
    selected_articles,     \* st.session_state.selected_articles: 0-based indices
    relevance_scores,      \* st.session_state["relevance_<index>"], by index
    select_boxes,          \* checkboxes "select_<index>" of the last render
    lit_widgets,           \* radio and text inputs of the page
    lit_run,               \* a run is due; inputs so far; how widgets are identified
    picked,                \* the article the user ticked at each index (history)
    lit_ev                 \* what the last render of the page did (history)

vars == << key_configured, selected_papers, cached_papers, last_search_query,
           selected_paper_id, paper_feedback, clusters, ranked_papers,
           last_data_source, all_loaded_papers, current_papers,
           data_source_selector, main_search, local_search, shown,
           run_pending, inputs, ev, call, result,
           articles_data, selected_articles, relevance_scores, select_boxes,
           lit_widgets, lit_run, picked, lit_ev >>

\* the page of src/literature_review_app.py
LitVars ==
    << articles_data, selected_articles, relevance_scores, select_boxes,
       lit_widgets, lit_run, picked, lit_ev >>

NoButton == [b |-> "", i |-> 0]

\* the page before its first run
LitFresh ==
    /\ articles_data = <<>>
    /\ selected_articles = <<>>
    /\ relevance_scores = <<>>
    /\ select_boxes = <<>>
    /\ lit_widgets = [ data_source |-> "Local JSON File", search_query |-> "",
                       research_question |-> "", gemini_api_key |-> "" ]
    /\ picked = <<>>
    /\ lit_ev = [ click |-> NoButton, api |-> "none", scores |-> <<>>,
                  displayed |-> <<>>, buttons |-> {}, stop |-> "" ]

\* the page is not opened in a dashboard session
LitNotStarted ==
    /\ LitFresh
    /\ lit_run = [pending |-> TRUE, inputs |-> 0, key_identity |-> TRUE]

\* no adapter function is under test in a dashboard session
NoCallYet == [f |-> "none"]
NoResult == [f |-> "none"]

Online == "Search Online"
Local == "Local Papers"

\* button keys: b the key prefix, i the index in the key, p the id text in it
Key(b, i, p) == [b |-> b, i |-> i, p |-> p]
NoKey == Key("", 0, "")

\* the script's view of the session while it runs: session_state, the
\* widget values, its local variables and the record of what it did
Begin(in) ==
    [ selected_papers |-> selected_papers, cached_papers |-> cached_papers,
      last_search_query |-> last_search_query,
      selected_paper_id |-> selected_paper_id, paper_feedback |-> paper_feedback,
      clusters |-> clusters, ranked_papers |-> ranked_papers,
      last_data_source |-> last_data_source,
      all_loaded_papers |-> all_loaded_papers, current_papers |-> current_papers,
      data_source |-> in.ds,
      main_search |-> IF in.ds = Online THEN in.text ELSE "",
      local_search |-> IF in.ds = Local THEN in.text ELSE "",
      search_query |-> in.text, search_clicked |-> FALSE,
      papers |-> <<>>, selected_paper |-> <<>>,
      shown |-> {}, stop |-> "",
      api |-> "none", ranked |-> FALSE, clustered |-> FALSE,
      stored |-> FALSE, view |-> <<>>, details |-> FALSE, miss |-> FALSE ]

\* st.rerun() and an uncaught exception both end the run where they occur
Rerun(s) == [s EXCEPT !.stop = "rerun"]
Raise(s) == [s EXCEPT !.stop = "exception"]
Show(s, keys) == [s EXCEPT !.shown = @ \cup keys]

(* --------------------------- the script -------------------------------- *)
\* module level: random.choice over the configured keys
ChooseKey(s) == IF key_configured THEN s ELSE Raise(s)

\* a switch that resets the annotations together with the selection
SwitchClearAll(s) ==
    IF s.data_source # s.last_data_source /\ s.last_data_source # "None"
    THEN [s EXCEPT !.selected_paper_id = None, !.current_papers = <<>>,
                   !.paper_feedback = <<>>, !.selected_papers = <<>>]
    ELSE s

\* clear selected paper when switching data sources
SwitchClear(s) ==
    IF s.data_source # s.last_data_source /\ s.last_data_source # "None"
    THEN [s EXCEPT !.selected_paper_id = None, !.current_papers = <<>>]
    ELSE s

\* left column: Search / Filter button, Clear button
SearchWidgets(s, in) ==
    IF s.data_source = Online
    THEN Show([s EXCEPT !.search_clicked = (in.click = Key("search", 0, ""))],
              {Key("search", 0, "")})
    ELSE IF s.local_search # "" /\ in.click = Key("clear", 0, "")
    THEN Rerun([s EXCEPT !.local_search = ""])
    ELSE Show([s EXCEPT !.search_clicked = (in.click = Key("filter", 0, ""))],
              {Key("filter", 0, "")}
                \cup (IF s.local_search # "" THEN {Key("clear", 0, "")} ELSE {}))

\* left column: Recent Searches buttons
RecentSearches(s, in) ==
    IF s.data_source = Online /\ DOMAIN s.cached_papers # {}
    THEN IF in.click.b = "cache" /\ in.click.p \in DOMAIN s.cached_papers
         THEN Rerun([s EXCEPT !.last_search_query = in.click.p])
         ELSE Show(s, {Key("cache", 0, q) : q \in DOMAIN s.cached_papers})
    ELSE s

\* middle column, Local Papers: load, filter, cluster and rank
LoadLocal(s, in) ==
    LET all_local_papers == load_local_papers
        papers == IF s.local_search # ""
                  THEN SelectSeq(all_local_papers,
                                 LAMBDA p : Lower(s.local_search) \in p.text)
                  ELSE all_local_papers
        regenerate == \/ s.data_source # s.last_data_source
                      \/ s.search_clicked
                      \/ s.clusters = <<>>
    IN  IF papers = <<>> THEN [s EXCEPT !.papers = papers]
        ELSE [s EXCEPT
                !.papers = papers,
                !.clusters = IF regenerate THEN cluster_papers(papers, in.cluster) ELSE @,
                !.ranked_papers = IF regenerate
                                  THEN rank_papers_by_relevance(papers, in.rank) ELSE @,
                !.clustered = regenerate, !.ranked = regenerate,
                !.last_data_source = s.data_source]

\* middle column, Search Online: search, cache, rank
LoadOnline(s, in) ==
    IF s.search_query # "" /\ (s.search_query # s.last_search_query \/ s.search_clicked)
    THEN LET papers == search_openalex(in.search)
             t == [s EXCEPT !.papers = papers, !.api = in.search.status]
         IN  IF papers = <<>> THEN t
             ELSE [t EXCEPT
                     !.cached_papers =
                         [q \in DOMAIN s.cached_papers \cup {Lower(s.search_query)} |->
                            IF q = Lower(s.search_query) THEN papers
                            ELSE s.cached_papers[q]],
                     !.last_search_query = s.search_query,
                     !.ranked_papers = Unique(rank_papers_by_relevance(papers, in.rank)),
                     !.ranked = TRUE,
                     !.clusters = <<>>]
    ELSE IF s.search_query # "" /\ Lower(s.search_query) \in DOMAIN s.cached_papers
    THEN [s EXCEPT !.papers = s.cached_papers[Lower(s.search_query)]]
    ELSE s

LoadPapers(s, in) ==
    IF s.data_source = Local THEN LoadLocal(s, in) ELSE LoadOnline(s, in)

\* store papers in session state: current_papers and all_loaded_papers
StoreUpdate(s) ==
    IF s.papers # <<>>
    THEN [s EXCEPT !.current_papers = s.papers,
                   !.all_loaded_papers = Upsert(s.all_loaded_papers, s.papers),
                   !.stored = TRUE]
    ELSE [s EXCEPT !.current_papers = <<>>]

\* View buttons of the Clusters tab: one entry per paper shown under a cluster
RECURSIVE ClusterButtons(_, _)
ClusterButtons(cluster_list, papers) ==
    IF cluster_list = <<>> THEN <<>>
    ELSE LET c == Head(cluster_list)
             inside == SelectSeq(c.papers, LAMBDA i : 0 <= i /\ i < Len(papers))
         IN  [n \in 1..Len(inside) |->
                LET paper == papers[inside[n] + 1]
                IN  [ key |-> Key("select_" \o c.name, n - 1, Str(Identity(paper))),
                      paper_id |-> Identity(paper), paper |-> paper ]]
             \o ClusterButtons(Tail(cluster_list), papers)

\* View buttons of the Local Review Queue
LocalQueueButtons(ranked) ==
    [n \in 1..Len(ranked) |->
        [ key |-> Key("view_queue", n, Str(LocalQueueId(ranked[n]))),
          paper_id |-> LocalQueueId(ranked[n]), paper |-> ranked[n] ]]

\* View buttons of the Online Review Queue
OnlineQueueButtons(ranked) ==
    LET unique_ranked == Unique(ranked)
    IN  [n \in 1..Len(unique_ranked) |->
            [ key |-> Key("view_scholar", n, Str(OnlineQueueId(unique_ranked[n]))),
              paper_id |-> OnlineQueueId(unique_ranked[n]), paper |-> unique_ranked[n] ]]

\* a list of View buttons: the pressed one stores its id and reruns
ViewButtons(s, in, buttons) ==
    LET hit == {n \in 1..Len(buttons) : buttons[n].key = in.click}
    IN  IF hit # {}
        THEN LET n == CHOOSE m \in hit : \A o \in hit : m <= o
             IN  Rerun([s EXCEPT !.selected_paper_id = buttons[n].paper_id,
                                 !.view = <<buttons[n].paper>>])
        ELSE Show(s, {buttons[n].key : n \in 1..Len(buttons)})

\* middle column: display results
DisplayResults(s, in) ==
    IF s.papers = <<>> THEN s
    ELSE LET papers == Unique(s.papers)
             ranked == IF s.ranked_papers # <<>> THEN s.ranked_papers ELSE papers
         IN  IF s.data_source = Local
             THEN ViewButtons(s, in, ClusterButtons(s.clusters, papers)
                                       \o LocalQueueButtons(ranked))
             ELSE ViewButtons(s, in, OnlineQueueButtons(ranked))

IsOpenAlex(p) == Truthy(p.paperId) /\ StartsWithW(p.paperId)

\* right column: the candidate list of the current data source
Candidates(s) ==
    IF s.data_source = Local
    THEN IF s.current_papers # <<>>
         THEN SelectSeq(s.current_papers, LAMBDA p : ~IsOpenAlex(p))
         ELSE SelectSeq(s.all_loaded_papers, LAMBDA p : ~IsOpenAlex(p))
    ELSE IF s.ranked_papers # <<>> THEN s.ranked_papers
    ELSE IF s.current_papers # <<>>
    THEN LET online_papers == SelectSeq(s.current_papers, IsOpenAlex)
         IN  IF online_papers # <<>> THEN online_papers
             ELSE SelectSeq(s.all_loaded_papers, IsOpenAlex)
    ELSE <<>>

FeedbackKey(p) == Str(p.id)
\* an entry created as already judged
PresetFeedback == [relevant |-> "True", note |-> ""]

\* {"relevant": None, "note": ""}
NewFeedback == [relevant |-> "None", note |-> ""]

\* paper_feedback with one entry added or replaced
PutFeedback(feedback, key, entry) ==
    [k \in DOMAIN feedback \cup {key} |-> IF k = key THEN entry ELSE feedback[k]]

InList(p, list) == \E i \in 1..Len(list) : list[i] = p

\* right column: details of the resolved paper, Add to List and feedback
ShowDetails(s, in, p) ==
    LET key == FeedbackKey(p)
        buttons == {Key("add", 0, key), Key("rel", 0, key),
                    Key("notrel", 0, key), Key("save_note", 0, key)}
    IN  IF in.click = Key("add", 0, key) /\ ~InList(p, s.selected_papers)
        THEN Rerun([s EXCEPT !.selected_papers = Append(@, p)])
        ELSE LET entry == IF key \in DOMAIN s.paper_feedback
                          THEN s.paper_feedback[key] ELSE NewFeedback
                 marked == IF in.click = Key("rel", 0, key)
                           THEN [entry EXCEPT !.relevant = "True"]
                           ELSE IF in.click = Key("notrel", 0, key)
                           THEN [entry EXCEPT !.relevant = "False"]
                           ELSE entry
                 noted == IF in.click = Key("save_note", 0, key)
                          THEN [marked EXCEPT !.note = in.note] ELSE marked
             IN  Show([s EXCEPT !.paper_feedback = PutFeedback(@, key, noted)],
                      buttons)

PaperDetails(s, in) ==
    LET all_papers == Candidates(s)
        selected_paper == IF Truthy(s.selected_paper_id) /\ all_papers # <<>>
                          THEN Resolve(all_papers, s.selected_paper_id)
                          ELSE <<>>
        t == [s EXCEPT !.selected_paper = selected_paper, !.details = TRUE,
                       !.miss = \A i \in 1..Len(all_papers) :
                                    ~Matches(all_papers[i], s.selected_paper_id)]
    IN  IF selected_paper # <<>> THEN ShowDetails(t, in, selected_paper[1])
        ELSE IF Truthy(s.selected_paper_id)
        THEN [t EXCEPT !.selected_paper_id = None]
        ELSE t

\* list.pop() in place of list.remove(p)
RemoveAtEnd(list, p) == SubSeq(list, 1, Len(list) - 1)

\* list.remove(p): drop the first element equal to p
RemoveFirst(list, p) ==
    LET first == CHOOSE i \in 1..Len(list) :
                     list[i] = p /\ \A j \in 1..(i - 1) : list[j] # p
    IN  [i \in 1..(Len(list) - 1) |-> IF i < first THEN list[i] ELSE list[i + 1]]

\* bottom: reading list with one Remove button per entry
ReadingList(s, in) ==
    IF in.click.b = "remove" /\ in.click.i \in 1..Len(s.selected_papers)
    THEN Rerun([s EXCEPT !.selected_papers = RemoveFirst(@, @[in.click.i])])
    ELSE Show(s, {Key("remove", i, "") : i \in 1..Len(s.selected_papers)})

\* the lists of the cached searches, one after the other
RECURSIVE CachedLists(_, _)
CachedLists(cached, queries) ==
    IF queries = {} THEN <<>>
    ELSE LET q == CHOOSE x \in queries : TRUE
         IN  cached[q] \o CachedLists(cached, queries \ {q})

\* duplicate removal by p.get('id', ...) of the feedback summary
RECURSIVE UniqueById(_, _, _)
UniqueById(acc, seen_ids, papers) ==
    IF papers = <<>> THEN acc
    ELSE LET p == Head(papers)
         IN  IF p.id \in seen_ids THEN UniqueById(acc, seen_ids, Tail(papers))
             ELSE UniqueById(Append(acc, p), seen_ids \cup {p.id}, Tail(papers))

\* get_papers_with_feedback testing `relevant is not None` for the first list
AnyFeedbackIsRelevant(all_loaded, cached, feedback) ==
    LET unique_papers == UniqueById(<<>>, {}, all_loaded \o CachedLists(cached, DOMAIN cached))
        Has(p) == FeedbackKey(p) \in DOMAIN feedback
        Items(list) == [i \in 1..Len(list) |->
                          [paper |-> list[i], note |-> feedback[FeedbackKey(list[i])].note]]
    IN  [ relevant |-> Items(SelectSeq(unique_papers,
                         LAMBDA p : Has(p) /\ feedback[FeedbackKey(p)].relevant # "None")),
          not_relevant |-> Items(SelectSeq(unique_papers,
                         LAMBDA p : Has(p) /\ feedback[FeedbackKey(p)].relevant = "False")) ]

\* get_papers_with_feedback: the relevant and the not relevant papers
get_papers_with_feedback(all_loaded, cached, feedback) ==
    LET all_available_papers == all_loaded \o CachedLists(cached, DOMAIN cached)
        unique_papers == UniqueById(<<>>, {}, all_available_papers)
        Marked(value) ==
            SelectSeq(unique_papers,
                      LAMBDA p : /\ FeedbackKey(p) \in DOMAIN feedback
                                 /\ feedback[FeedbackKey(p)].relevant = value)
        Items(list) == [i \in 1..Len(list) |->
                          [paper |-> list[i], note |-> feedback[FeedbackKey(list[i])].note]]
    IN  [relevant |-> Items(Marked("True")), not_relevant |-> Items(Marked("False"))]

\* one tab of the summary: a View button per item, keyed by the paper's id;
\* a second button with a key already used raises DuplicateWidgetID
RECURSIVE SummaryTab(_, _, _, _, _)
SummaryTab(s, in, prefix, items, used) ==
    IF items = <<>> \/ s.stop # "" THEN s
    ELSE LET paper == Head(items).paper
             key == Key(prefix, 0, Str(paper.id))
         IN  IF key \in used THEN Raise(s)
             ELSE IF in.click = key
             THEN Rerun([s EXCEPT !.selected_paper_id = paper.id, !.view = <<paper>>])
             ELSE SummaryTab(Show(s, {key}), in, prefix, Tail(items), used \cup {key})

\* bottom: feedback summary
FeedbackSummary(s, in) ==
    LET lists == get_papers_with_feedback(s.all_loaded_papers, s.cached_papers,
                                          s.paper_feedback)
        t == SummaryTab(s, in, "view_fb_rel", lists.relevant, {})
    IN  IF t.stop # "" THEN t
        ELSE SummaryTab(t, in, "view_fb_notrel", lists.not_relevant, {})

\* the run up to the point where the papers of the data source are loaded;
\* a phase runs only while the script has not been stopped
Loaded(in) ==
    CHOOSE s4 \in
        { IF s3.stop # "" THEN s3 ELSE LoadPapers(s3, in) :
          s3 \in { IF s2.stop # "" THEN s2 ELSE RecentSearches(s2, in) :
          s2 \in { IF s1.stop # "" THEN s1 ELSE SearchWidgets(s1, in) :
          s1 \in { IF s0.stop # "" THEN s0 ELSE SwitchClear(s0) :
          s0 \in { ChooseKey(Begin(in)) } } } } } : TRUE

\* one run of the script for one input
Script(in) ==
    CHOOSE s9 \in
        { IF s8.stop # "" THEN s8 ELSE FeedbackSummary(s8, in) :
          s8 \in { IF s7.stop # "" THEN s7 ELSE ReadingList(s7, in) :
          s7 \in { IF s6.stop # "" THEN s6 ELSE PaperDetails(s6, in) :
          s6 \in { IF s5.stop # "" THEN s5 ELSE DisplayResults(s5, in) :
          s5 \in { IF s4.stop # "" THEN s4 ELSE StoreUpdate(s4) :
          s4 \in { Loaded(in) } } } } } } : TRUE

(* ------------------------------ actions -------------------------------- *)
CurrentText == IF data_source_selector = Online THEN main_search ELSE local_search

\* the state a run of the script leaves behind
Commit(in, r) ==
    /\ Len(r.selected_papers) <= (IF Len(selected_papers) > MaxList
                                  THEN Len(selected_papers) ELSE MaxList)
    /\ Cardinality(DOMAIN r.paper_feedback) <= MaxFeedback
    /\ selected_papers' = r.selected_papers
    /\ cached_papers' = r.cached_papers
    /\ last_search_query' = r.last_search_query
    /\ selected_paper_id' = r.selected_paper_id
    /\ paper_feedback' = r.paper_feedback
    /\ clusters' = r.clusters
    /\ ranked_papers' = r.ranked_papers
    /\ last_data_source' = r.last_data_source
    /\ all_loaded_papers' = r.all_loaded_papers
    /\ current_papers' = r.current_papers
    /\ data_source_selector' = r.data_source
    /\ main_search' = r.main_search
    /\ local_search' = r.local_search
    /\ shown' = IF r.stop = "rerun" THEN {} ELSE r.shown
    /\ run_pending' = (r.stop = "rerun")
    /\ inputs' = IF run_pending THEN inputs ELSE inputs + 1
    /\ ev' = [ click |-> in.click, ds |-> r.data_source, stop |-> r.stop,
               api |-> r.api, stored |-> r.stored,
               repeat |-> r.stored /\ r.papers = current_papers,
               cause |-> IF run_pending THEN ev.click ELSE NoKey,
               view |-> IF r.view # <<>> THEN r.view
                        ELSE IF run_pending THEN ev.view ELSE <<>>,
               details |-> r.details, miss |-> r.miss,
               selected_paper |-> r.selected_paper,
               last_add |-> IF in.click.b = "add" THEN <<in.click.p>>
                            ELSE IF run_pending THEN ev.last_add
                            ELSE <<>> ]
    /\ UNCHANGED << key_configured, call, result, LitVars >>

\* a collaborator that answers every call: shows which calls a run makes
Answering(ds, text, click, note) ==
    [ ds |-> ds, text |-> text, click |-> click, note |-> note,
      search |-> [status |-> "ok", results |-> <<RawW1a>>],
      rank |-> [ok |-> TRUE, nums |-> <<1>>],
      cluster |-> [ok |-> TRUE, groups |-> << [name |-> "c1", nums |-> <<1>>] >>] ]

\* a run with the given user input, for every outcome of the calls it makes
RenderWith(outcomes, ds, text, click, note) ==
    \E calls \in {Loaded(Answering(ds, text, click, note))} :
        \E search \in (IF calls.api # "none" THEN outcomes ELSE {NoCall}),
           rank \in (IF calls.ranked THEN RankReplies ELSE {NoRank}),
           cluster \in (IF calls.clustered THEN ClusterReplies ELSE {NoCluster}) :
            \E in \in {[ ds |-> ds, text |-> text, click |-> click, note |-> note,
                          search |-> search, rank |-> rank, cluster |-> cluster ]} :
                \E r \in {Script(in)} :
                    /\ r.ranked \/ rank = NoRank
                    /\ Commit(in, r)

\* a run against the OpenAlex of the universe
Render(ds, text, click, note) == RenderWith(SearchOutcomes, ds, text, click, note)

\* the first run of a session, and the run st.rerun() starts
RunScript ==
    /\ run_pending
    /\ Render(data_source_selector, CurrentText, NoKey, "")

\* the user picks the other data source; its text box starts empty
SwitchDataSource ==
    /\ ~run_pending /\ inputs < MaxInputs
    /\ Render(IF data_source_selector = Online THEN Local ELSE Online, "", NoKey, "")

\* the user edits the Research Topic box
TypeQuery ==
    /\ ~run_pending /\ inputs < MaxInputs /\ data_source_selector = Online
    /\ \E q \in OnlineQueries \ {main_search} : Render(Online, q, NoKey, "")

\* the user edits the Filter Papers box
TypeFilter ==
    /\ ~run_pending /\ inputs < MaxInputs /\ data_source_selector = Local
    /\ \E f \in LocalFilters \ {local_search} : Render(Local, f, NoKey, "")

\* the user clicks a button the last render displayed
Click(prefixes) ==
    /\ ~run_pending /\ inputs < MaxInputs
    /\ \E key \in shown :
        /\ key.b \in prefixes
        /\ \E note \in (IF key.b = "save_note" THEN Notes ELSE {""}) :
              Render(data_source_selector, CurrentText, key, note)

ClickSearch == Click({"search", "filter"})
ClickClear == Click({"clear"})
ClickRecentSearch == Click({"cache"})
ClickClusterView == Click({"select_c1"})
ClickQueueView == Click({"view_queue", "view_scholar"})
ClickAddToList == Click({"add"})
ClickRelevant == Click({"rel"})
ClickNotRelevant == Click({"notrel"})
ClickSaveNote == Click({"save_note"})
ClickRemove == Click({"remove"})
ClickSummaryView == Click({"view_fb_rel", "view_fb_notrel"})

Init ==
    /\ key_configured \in BOOLEAN
    /\ selected_papers = <<>>
    /\ cached_papers = <<>>
    /\ last_search_query = ""
    /\ selected_paper_id = None
    /\ paper_feedback = <<>>
    /\ clusters = <<>>
    /\ ranked_papers = <<>>
    /\ last_data_source = "None"
    /\ all_loaded_papers = <<>>
    /\ current_papers = <<>>
    /\ data_source_selector = Online
    /\ main_search = ""
    /\ local_search = ""
    /\ shown = {}
    /\ run_pending = TRUE
    /\ inputs = 0
    /\ ev = [ click |-> NoKey, ds |-> Online, stop |-> "", api |-> "none",
              stored |-> FALSE, repeat |-> FALSE, cause |-> NoKey, view |-> <<>>,
              details |-> FALSE, miss |-> FALSE, selected_paper |-> <<>>,
              last_add |-> <<>> ]
    /\ call = NoCallYet
    /\ result = NoResult
    /\ LitNotStarted

Next ==
    \/ RunScript
    \/ SwitchDataSource
    \/ TypeQuery
    \/ TypeFilter
    \/ ClickSearch
    \/ ClickClear
    \/ ClickRecentSearch
    \/ ClickClusterView
    \/ ClickQueueView
    \/ ClickAddToList
    \/ ClickRelevant
    \/ ClickNotRelevant
    \/ ClickSaveNote
    \/ ClickRemove
    \/ ClickSummaryView

Spec == Init /\ [][Next]_vars

(* ------------------- sessions that start with a reading list ----------- *)
\* records Add to List may have put into the list
ListRecords ==
    { OpenAlexRecord(RawW1a), OpenAlexRecord(RawW1b), OpenAlexRecord(RawW2),
      load_local_papers[2] }

\* Add to List appends a record only if no equal record is in the list
StartLists ==
    { l \in UNION { [1..n -> ListRecords] : n \in 0..MaxStartList } :
        \A i, j \in 1..Len(l) : i # j => l[i] # l[j] }

\* a session whose reading list was filled before; nothing else loaded
ReadingListInit ==
    /\ key_configured = TRUE
    /\ selected_papers \in StartLists
    /\ cached_papers = <<>>
    /\ last_search_query = ""
    /\ selected_paper_id = None
    /\ paper_feedback = <<>>
    /\ clusters = <<>>
    /\ ranked_papers = <<>>
    /\ last_data_source = "None"
    /\ all_loaded_papers = <<>>
    /\ current_papers = <<>>
    /\ data_source_selector = Online
    /\ main_search = ""
    /\ local_search = ""
    /\ shown = {}
    /\ run_pending = TRUE
    /\ inputs = 0
    /\ ev = [ click |-> NoKey, ds |-> Online, stop |-> "", api |-> "none",
              stored |-> FALSE, repeat |-> FALSE, cause |-> NoKey, view |-> <<>>,
              details |-> FALSE, miss |-> FALSE, selected_paper |-> <<>>,
              last_add |-> <<>> ]
    /\ call = NoCallYet
    /\ result = NoResult
    /\ LitNotStarted

ReadingListNext ==
    \/ RunScript
    \/ ClickRemove

ReadingListSpec == ReadingListInit /\ [][ReadingListNext]_vars

(* --------------- sessions in which OpenAlex omits work ids ------------- *)
IdLessRender(ds, text, click, note) == RenderWith(IdLessOutcomes, ds, text, click, note)

IdLessRunScript ==
    /\ run_pending
    /\ IdLessRender(data_source_selector, CurrentText, NoKey, "")

IdLessTypeQuery ==
    /\ ~run_pending /\ inputs < MaxInputs
    /\ \E q \in OnlineQueries \ {main_search} : IdLessRender(Online, q, NoKey, "")

IdLessClick ==
    /\ ~run_pending /\ inputs < MaxInputs
    /\ \E key \in shown :
        /\ key.b \in {"search", "view_scholar", "add"}
        /\ IdLessRender(Online, main_search, key, "")

IdLessNext ==
    \/ IdLessRunScript
    \/ IdLessTypeQuery
    \/ IdLessClick

IdLessSpec == Init /\ [][IdLessNext]_vars

(* -------------------- adapter functions called alone ------------------- *)
\* the dashboard session is not started while a function is called alone
SessionVars ==
    << key_configured, selected_papers, cached_papers, last_search_query,
       selected_paper_id, paper_feedback, clusters, ranked_papers,
       last_data_source, all_loaded_papers, current_papers,
       data_source_selector, main_search, local_search, shown,
       run_pending, inputs, ev >>

SessionNotStarted ==
    /\ key_configured = TRUE
    /\ selected_papers = <<>>
    /\ cached_papers = <<>>
    /\ last_search_query = ""
    /\ selected_paper_id = None
    /\ paper_feedback = <<>>
    /\ clusters = <<>>
    /\ ranked_papers = <<>>
    /\ last_data_source = "None"
    /\ all_loaded_papers = <<>>
    /\ current_papers = <<>>
    /\ data_source_selector = Online
    /\ main_search = ""
    /\ local_search = ""
    /\ shown = {}
    /\ run_pending = TRUE
    /\ inputs = 0
    /\ ev = [ click |-> NoKey, ds |-> Online, stop |-> "", api |-> "none",
              stored |-> FALSE, repeat |-> FALSE, cause |-> NoKey, view |-> <<>>,
              details |-> FALSE, miss |-> FALSE, selected_paper |-> <<>>,
              last_add |-> <<>> ]

\* the function returns: result holds its value
Return(f, value) ==
    /\ result = NoResult
    /\ call.f = f
    /\ result' = [f |-> f, value |-> value]
    /\ UNCHANGED << SessionVars, call, LitVars >>

\* papers.json files: each record carries an explicit id or none, the
\* explicit ids of one file being different from each other
LocalIdChoices == {Missing, PyInt("1"), PyInt("2"), PyInt("3"), PyInt("4")}
Corpora ==
    { [i \in 1..Len(ids) |->
          [id |-> ids[i], title |-> "L" \o ToString(i), year |-> "2019", text |-> {"a"}]] :
      ids \in { c \in UNION { [1..n -> LocalIdChoices] : n \in 1..MaxCorpus } :
                  \A i, j \in 1..Len(c) : (i # j /\ c[i] # Missing) => c[i] # c[j] } }

LocalCorpusInit ==
    /\ SessionNotStarted
    /\ LitNotStarted
    /\ call \in {[f |-> "load_local_papers", references |-> c] : c \in Corpora}
    /\ result = NoResult

LoadLocalPapers == Return("load_local_papers", NormalizeLocal(call.references))

LocalCorpusNext == LoadLocalPapers

LocalCorpusSpec == LocalCorpusInit /\ [][LocalCorpusNext]_vars

(* ------------------ normalization of one raw record -------------------- *)
\* dict.get(key, default) without its default
GetNoDefault(x, default) == x

\* dict.get(key, default): the default only if the key is absent
Get(x, default) == IF x = Missing THEN default ELSE x

\* dict.get(key): None if the key is absent
GetNone(x) == Get(x, None)

Placeholder == [abstract |-> PyStr("No abstract available"), journal |-> PyStr("N/A"),
                doi |-> PyStr("")]

\* values a raw field may carry: absent key, null, or a value
RawTitles == {Missing, None, PyStr("T")}
RawAuthors == {Missing, None, PyList("[]"), PyList("[Ann]")}
RawYears == {Missing, None, PyInt("2020")}
RawAbstracts == {Missing, None, PyStr(""), PyStr("text")}
RawJournals == {Missing, PyStr("J")}
RawDois == {Missing, None, PyStr("10.1/x")}
\* primary_location of an OpenAlex work
RawLocations ==
    { Missing, None, PyDict("{}"), PyDict("{source: null}"), PyDict("{source: {}}"),
      PyDict("{source: {display_name: J}}") }

\* load_local_papers: normalized_paper of the record at position idx
LocalFields(p, idx) ==
    [ id |-> Get(p.id, PyInt(ToString(idx))),
      title |-> Get(p.title, PyStr("Untitled")),
      authors |-> Get(p.authors, PyList("[Unknown]")),
      year |-> Get(p.year, PyInt("0")),
      abstract |-> Get(p.abstract, Placeholder.abstract),
      journal |-> Get(p.journal, Placeholder.journal),
      doi |-> Get(p.doi, Placeholder.doi) ]

RawLocalRecords ==
    [ id : {Missing}, title : RawTitles, authors : RawAuthors, year : RawYears,
      abstract : RawAbstracts, journal : RawJournals, doi : RawDois ]

\* search_openalex: journal from primary_location.source.display_name
OpenAlexJournal(location) ==
    IF Truthy(GetNone(location)) /\ location.v = "{source: {display_name: J}}"
    THEN PyStr("J")
    ELSE Placeholder.journal

\* search_openalex on a response with this one work: the list it returns,
\* empty when the loop raises and the except clause returns []
OpenAlexFields(raw) ==
    LET title == PyOr(GetNone(raw.display_name), Get(raw.title, PyStr("Untitled")))
        authors == IF Truthy(GetNone(raw.authorships)) THEN raw.authorships
                   ELSE PyList("[]")
        year == PyOr(GetNone(raw.publication_year), PyInt("0"))
        abstract == Get(raw.abstract, Placeholder.abstract)
        doi == IF Truthy(GetNone(raw.doi)) THEN raw.doi ELSE Placeholder.doi
        raises == \/ abstract = None
                  \/ raw.primary_location = None
    IN  IF raises THEN <<>>
        ELSE << [ id |-> PyStr("W1"),
                  title |-> title,
                  authors |-> IF Truthy(authors) THEN authors ELSE PyList("[Unknown]"),
                  year |-> year,
                  abstract |-> IF Truthy(abstract) THEN abstract
                               ELSE Placeholder.abstract,
                  journal |-> OpenAlexJournal(raw.primary_location),
                  doi |-> doi ] >>

RawOpenAlexWorks ==
    [ display_name : RawTitles, title : {Missing, PyStr("T")}, authorships : RawAuthors,
      publication_year : RawYears, abstract : RawAbstracts,
      primary_location : RawLocations, doi : RawDois ]

\* search_semantic_scholar on a response with this one paper
SemanticScholarFields(raw) ==
    IF raw.authors = None THEN <<>>
    ELSE << [ title |-> Get(raw.title, PyStr("N/A")),
              authors |-> Get(raw.authors, PyList("[]")),
              year |-> GetNone(raw.year),
              abstract |-> Get(raw.abstract, Placeholder.abstract),
              venue |-> Get(raw.venue, Placeholder.journal) ] >>

RawSemanticScholarPapers ==
    [ title : RawTitles, authors : RawAuthors, year : RawYears,
      abstract : RawAbstracts, venue : RawJournals ]

NormalizeInit ==
    /\ SessionNotStarted
    /\ LitNotStarted
    /\ call \in {[f |-> "load_local_papers", raw |-> r] : r \in RawLocalRecords}
               \cup {[f |-> "search_openalex", raw |-> r] : r \in RawOpenAlexWorks}
               \cup {[f |-> "search_semantic_scholar", raw |-> r] :
                        r \in RawSemanticScholarPapers}
    /\ result = NoResult

NormalizeLocalRecord == Return("load_local_papers", <<LocalFields(call.raw, 1)>>)
NormalizeOpenAlexWork == Return("search_openalex", OpenAlexFields(call.raw))
NormalizeSemanticScholarPaper ==
    Return("search_semantic_scholar", SemanticScholarFields(call.raw))

NormalizeNext ==
    \/ NormalizeLocalRecord
    \/ NormalizeOpenAlexWork
    \/ NormalizeSemanticScholarPaper

NormalizeSpec == NormalizeInit /\ [][NormalizeNext]_vars

(* ------------------- ranking and clustering called alone --------------- *)
\* number lists the model may reply with: repeated, zero and out of range
ReplyNumbers == UNION { [1..n -> 0..(MaxStartList + 1)] : n \in 0..MaxReply }

\* the call raises (ok false), or the reply text is parsed into numbers
AllRankReplies == {NoRank} \cup {[ok |-> TRUE, nums |-> nums] : nums \in ReplyNumbers}
AllClusterReplies ==
    {NoCluster, [ok |-> TRUE, groups |-> <<>>]}
      \cup {[ok |-> TRUE, groups |-> << [name |-> "c1", nums |-> nums] >>] :
               nums \in ReplyNumbers}

RankClusterInit ==
    /\ SessionNotStarted
    /\ LitNotStarted
    /\ call \in {[f |-> "rank_papers_by_relevance", papers |-> l, reply |-> r] :
                    l \in StartLists, r \in AllRankReplies}
               \cup {[f |-> "cluster_papers", papers |-> l, reply |-> r] :
                        l \in StartLists, r \in AllClusterReplies}
    /\ result = NoResult

CallRank ==
    Return("rank_papers_by_relevance", rank_papers_by_relevance(call.papers, call.reply))
CallCluster == Return("cluster_papers", cluster_papers(call.papers, call.reply))

RankClusterNext ==
    \/ CallRank
    \/ CallCluster

RankClusterSpec == RankClusterInit /\ [][RankClusterNext]_vars

(* ------------- the page of src/literature_review_app.py ---------------- *)
\* articles as the page holds them; text is what a search term is looked
\* up in (title, abstract, authors and keywords, lower-cased)
ArticleX == [title |-> "X", year |-> 2021, citations |-> 7, text |-> {"q1"}]
ArticleY == [title |-> "Y", year |-> 2023, citations |-> 0, text |-> {"q1", "q2"}]

\* the articles of articles.json
load_json_articles == << ArticleX, ArticleY >>

\* what the Semantic Scholar request of one render may come back with: the
\* articles the service holds for the search term, or a failure
SemanticScholarOutcomes(query) ==
    { [status |-> "error", results |-> <<>>],
      [status |-> "ok",
       results |-> SelectSeq(<< ArticleX, ArticleY >>,
                             LAMBDA a : query \in a.text)] }

\* the list on status 200, the empty list on any other status or exception
search_semantic_scholar(outcome) ==
    IF outcome.status = "ok" THEN outcome.results ELSE <<>>

\* defaults of the sidebar's number inputs
min_year == 2020
min_citations == 0

\* the relevance record the generative model returns: what it was asked about
score_relevance(article, research_question) ==
    [article |-> article.title, question |-> research_question]

SetItem(d, k, v) == [x \in DOMAIN d \cup {k} |-> IF x = k THEN v ELSE d[x]]
Contains(list, x) == \E i \in 1..Len(list) : list[i] = x

\* gemini_model is set when an API key is entered
GeminiModel(in) == in.w.gemini_api_key # ""

\* the research question input is rendered only with a model
ResearchQuestion(in) ==
    IF GeminiModel(in) THEN in.w.research_question ELSE ""

\* the page's session as a run of the script starts
LitBegin ==
    [ articles_data |-> articles_data, selected_articles |-> selected_articles,
      relevance_scores |-> relevance_scores, boxes |-> <<>>, api |-> "none",
      scores |-> <<>>, displayed |-> <<>>, buttons |-> {}, stop |-> "" ]

\* load articles based on the data source
LoadArticles(s, in) ==
    IF in.w.data_source = "Local JSON File"
    THEN IF s.articles_data = <<>>
         THEN [s EXCEPT !.articles_data = load_json_articles]
         ELSE IF in.click.b = "reload"
              THEN [s EXCEPT !.articles_data = load_json_articles,
                             !.buttons = @ \cup {"reload"}]
              ELSE [s EXCEPT !.buttons = @ \cup {"reload"}]
    ELSE IF in.w.search_query # ""
         THEN [s EXCEPT !.articles_data = search_semantic_scholar(in.search),
                        !.api = in.search.status]
         ELSE s

\* the original indices of the articles that pass the search term and the
\* year and citation filters
FilteredIndices(s, in) ==
    SelectSeq([i \in 1..Len(s.articles_data) |-> i - 1],
              LAMBDA idx :
                  /\ in.w.search_query # ""
                       => in.w.search_query \in s.articles_data[idx + 1].text
                  /\ s.articles_data[idx + 1].year >= min_year
                  /\ s.articles_data[idx + 1].citations >= min_citations)

\* what st.checkbox("Select", key="select_<index>", value=is_selected)
\* returns: the default when the box is new; the state the browser holds
\* (toggled by a click) when the box is the one of the last render, which
\* with widgets identified by their arguments needs the same default
Checkbox(in, index, is_selected) ==
    IF index \notin DOMAIN select_boxes
    THEN is_selected
    ELSE IF lit_run.key_identity \/ select_boxes[index].value = is_selected
         THEN IF in.click = [b |-> "select", i |-> index]
              THEN ~select_boxes[index].checked
              ELSE select_boxes[index].checked
         ELSE is_selected

\* one article card: the relevance score, cached under the index, and the
\* selection checkbox
display_article(s, in, index) ==
    LET article == s.articles_data[index + 1]
        scored == GeminiModel(in) /\ ResearchQuestion(in) # ""
        cache == IF scored /\ index \notin DOMAIN s.relevance_scores
                 THEN SetItem(s.relevance_scores, index,
                              score_relevance(article, ResearchQuestion(in)))
                 ELSE s.relevance_scores
        is_selected == Contains(s.selected_articles, index)
        checked == Checkbox(in, index, is_selected)
    IN  [s EXCEPT !.relevance_scores = cache,
                  !.scores = IF scored THEN SetItem(@, index, cache[index]) ELSE @,
                  !.boxes = SetItem(@, index, [value |-> is_selected, checked |-> checked]),
                  !.selected_articles =
                      IF checked
                      THEN IF is_selected THEN @ ELSE Append(@, index)
                      ELSE IF is_selected THEN SelectSeq(@, LAMBDA i : i # index) ELSE @,
                  !.displayed = Append(@, index)]

\* the cards of the Search & Browse tab, one after the other
RECURSIVE DisplayArticles(_, _, _)
DisplayArticles(s, in, indices) ==
    IF indices = <<>>
    THEN s
    ELSE CHOOSE r \in { DisplayArticles(s1, in, Tail(indices)) :
                        s1 \in { display_article(s, in, Head(indices)) } } : TRUE

\* the Selected Articles tab: the Clear Selection button
SelectedTab(s, in) ==
    IF s.selected_articles # <<>>
    THEN IF in.click.b = "clear_selection"
         THEN [s EXCEPT !.selected_articles = <<>>, !.stop = "rerun",
                        !.buttons = @ \cup {"clear_selection"}]
         ELSE [s EXCEPT !.buttons = @ \cup {"clear_selection"}]
    ELSE s

\* one run of the script from top to bottom
LitScript(in) ==
    CHOOSE r \in { SelectedTab(s2, in) :
                   s2 \in { DisplayArticles(s1, in, FilteredIndices(s1, in)) :
                            s1 \in { LoadArticles(LitBegin, in) } } } : TRUE

\* the article the user ticked at each index: ticking records the article
\* the card showed, unticking and Clear Selection forget it
Picked(in, r) ==
    IF r.selected_articles = <<>>
    THEN <<>>
    ELSE IF in.click.b = "select"
         THEN IF select_boxes[in.click.i].checked
              THEN [i \in DOMAIN picked \ {in.click.i} |-> picked[i]]
              ELSE SetItem(picked, in.click.i, articles_data[in.click.i + 1])
         ELSE picked

\* the session after the run
LitCommit(in, r) ==
    /\ articles_data' = r.articles_data
    /\ selected_articles' = r.selected_articles
    /\ relevance_scores' = r.relevance_scores
    /\ select_boxes' = r.boxes
    /\ lit_widgets' = [in.w EXCEPT !.research_question = ResearchQuestion(in)]
    /\ lit_run' = [lit_run EXCEPT !.pending = (r.stop = "rerun"),
                                  !.inputs = IF lit_run.pending THEN @ ELSE @ + 1]
    /\ picked' = Picked(in, r)
    /\ lit_ev' = [ click |-> in.click, api |-> r.api, scores |-> r.scores,
                   displayed |-> r.displayed, buttons |-> r.buttons,
                   stop |-> r.stop ]
    /\ UNCHANGED << SessionVars, call, result >>

\* a run of the script with the widgets at w and the button click pressed;
\* the request to Semantic Scholar is made when that source has a search term
LitRender(w, click) ==
    \E search \in (IF w.data_source = "Semantic Scholar API" /\ w.search_query # ""
                   THEN SemanticScholarOutcomes(w.search_query) ELSE {[status |-> "none", results |-> <<>>]}) :
        \E in \in { [w |-> w, click |-> click, search |-> search] } :
            \E r \in { LitScript(in) } : LitCommit(in, r)

LitReady == ~lit_run.pending /\ lit_run.inputs < MaxLitInputs

\* the first run, and the run st.rerun() asks for
LitRunScript ==
    /\ lit_run.pending
    /\ LitRender(lit_widgets, NoButton)

LitSwitchDataSource ==
    /\ LitReady
    /\ \E d \in {"Local JSON File", "Semantic Scholar API"} \ {lit_widgets.data_source} :
         LitRender([lit_widgets EXCEPT !.data_source = d], NoButton)

LitTypeApiKey ==
    /\ LitReady
    /\ \E k \in {"", "k"} \ {lit_widgets.gemini_api_key} :
         LitRender([lit_widgets EXCEPT !.gemini_api_key = k], NoButton)

LitTypeResearchQuestion ==
    /\ LitReady
    /\ lit_widgets.gemini_api_key # ""
    /\ \E q \in {"", "r1", "r2"} \ {lit_widgets.research_question} :
         LitRender([lit_widgets EXCEPT !.research_question = q], NoButton)

LitTypeSearch ==
    /\ LitReady
    /\ \E q \in {"", "q1", "q2"} \ {lit_widgets.search_query} :
         LitRender([lit_widgets EXCEPT !.search_query = q], NoButton)

LitToggleSelect ==
    /\ LitReady
    /\ \E index \in DOMAIN select_boxes :
         LitRender(lit_widgets, [b |-> "select", i |-> index])

LitClickReload ==
    /\ LitReady
    /\ "reload" \in lit_ev.buttons
    /\ LitRender(lit_widgets, [b |-> "reload", i |-> 0])

LitClickClearSelection ==
    /\ LitReady
    /\ "clear_selection" \in lit_ev.buttons
    /\ LitRender(lit_widgets, [b |-> "clear_selection", i |-> 0])

LitInit ==
    /\ SessionNotStarted
    /\ call = NoCallYet
    /\ result = NoResult
    /\ LitFresh
    /\ lit_run \in { [pending |-> TRUE, inputs |-> 0, key_identity |-> k] :
                     k \in BOOLEAN }

LitNext ==
    \/ LitRunScript
    \/ LitSwitchDataSource
    \/ LitTypeApiKey
    \/ LitTypeResearchQuestion
    \/ LitTypeSearch
    \/ LitToggleSelect
    \/ LitClickReload
    \/ LitClickClearSelection

LitSpec == LitInit /\ [][LitNext]_vars

(* ------------------------------ claims --------------------------------- *)
\* the session as the script sees it when no input is given
Idle ==
    Begin([ ds |-> data_source_selector, text |-> CurrentText, click |-> NoKey,
            note |-> "", search |-> NoCall, rank |-> NoRank, cluster |-> NoCluster ])

\* the non-empty lists a render may hand to the store-update step
ResultLists ==
    ({search_openalex(o) : o \in SearchOutcomes}
        \cup {SelectSeq(load_local_papers, LAMBDA p : f \in p.text) : f \in LocalFilters}
        \cup {load_local_papers, current_papers}) \ {<<>>}

EntriesFor(list, identity) == {i \in 1..Len(list) : Identity(list[i]) = identity}

\* C1: the store-update step run twice with the same non-empty list leaves
\* all_loaded_papers with exactly one entry per identity of the list, the
\* second run changing nothing, and neither run touches paper_feedback or
\* the reading list.
C1_UpsertIdempotent ==
    \A L \in ResultLists :
        LET once == StoreUpdate([Idle EXCEPT !.papers = L])
            twice == StoreUpdate([once EXCEPT !.papers = L])
        IN  /\ twice.all_loaded_papers = once.all_loaded_papers
            /\ \A i \in 1..Len(L) :
                 Cardinality(EntriesFor(twice.all_loaded_papers, Identity(L[i]))) = 1
            /\ twice.paper_feedback = paper_feedback
            /\ twice.selected_papers = selected_papers

\* two consecutive renders stored the same list, with annotations present
C1_Witness ==
    /\ ev.repeat
    /\ paper_feedback # <<>>
    /\ selected_papers # <<>>
    /\ \A i \in 1..Len(current_papers) :
         Cardinality(EntriesFor(all_loaded_papers, Identity(current_papers[i]))) = 1

\* C2: after two records with the same OpenAlex paperId were upserted one
\* after the other, the store has one entry for that identity and it
\* carries the fields of the later record.
C2_LatestRecordWins ==
    ev.stored =>
        \A i \in 1..Len(current_papers) :
            IsOpenAlex(current_papers[i]) =>
                LET entries == EntriesFor(all_loaded_papers, Identity(current_papers[i]))
                IN  /\ Cardinality(entries) = 1
                    /\ \A j \in entries : all_loaded_papers[j] = current_papers[i]

\* C3: the reading list never holds two entries with the same identity.
C3_ReadingListNoDuplicates ==
    \A i, j \in 1..Len(selected_papers) :
        i # j => Identity(selected_papers[i]) # Identity(selected_papers[j])

\* C4: a render whose details step finds no candidate matching
\* selected_paper_id ends with selected_paper_id = None and no paper shown.
C4_MissClearsReference ==
    (ev.details /\ ev.miss /\ ev.stop = "") =>
        (selected_paper_id = None /\ ev.selected_paper = <<>>)

\* C5: in Local Papers mode, the render that follows a click on a View
\* button of the Review Queue or of a cluster resolves the details pane to
\* the paper of that button and keeps selected_paper_id denoting it.
C5_LocalViewResolves ==
    (/\ ev.ds = Local
     /\ ev.cause.b \in {"view_queue", "select_c1"}
     /\ ev.stop = "") =>
        (/\ ev.selected_paper = ev.view
         /\ Matches(ev.view[1], selected_paper_id))

\* the papers the feedback summary draws from
AllAvailable == all_loaded_papers \o CachedLists(cached_papers, DOMAIN cached_papers)
Summary == get_papers_with_feedback(all_loaded_papers, cached_papers, paper_feedback)
IdsIn(items) == {items[i].paper.id : i \in 1..Len(items)}
\* the click of this render was on a feedback button of the paper it shows
Marked(button) ==
    /\ ev.click.b = button
    /\ ev.selected_paper # <<>>
    /\ ev.click.p = FeedbackKey(ev.selected_paper[1])

C7_SearchErrorKeepsState ==
    [][ (ev'.api = "error" /\ ev'.click.b \in {"", "search"}) =>
            /\ all_loaded_papers' = all_loaded_papers
            /\ current_papers' = current_papers
            /\ cached_papers' = cached_papers
            /\ ranked_papers' = ranked_papers
            /\ last_search_query' = last_search_query
            /\ paper_feedback' = paper_feedback
            /\ selected_papers' = selected_papers ]_vars

\* C8: no render ends with an uncaught exception.
C8_NoUncaughtException == ev.stop # "exception"

IsPrefix(a, b) == Len(a) <= Len(b) /\ \A i \in 1..Len(a) : a[i] = b[i]
WithoutIndex(list, n) ==
    [i \in 1..(Len(list) - 1) |-> IF i < n THEN list[i] ELSE list[i + 1]]
FeedbackClicks == {"rel", "notrel", "save_note"}

C10_SecondAddIsNoOp ==
    [][ (/\ ev'.click.b = "add"
         /\ ev.last_add = <<ev'.click.p>>) =>
            selected_papers' = selected_papers ]_vars

\* C11: a click on the Remove button of entry i takes exactly entry i out of
\* the reading list, the other entries keeping their order, and the run
\* ends in a rerun; a Remove click for an index the list does not have
\* changes nothing and raises nothing.
C11_RemoveExactlyThatEntry ==
    [][ /\ ev'.click.b = "remove" =>
            LET i == ev'.click.i
            IN  /\ i \in 1..Len(selected_papers)
                /\ Len(selected_papers') = Len(selected_papers) - 1
                /\ \A j \in 1..Len(selected_papers') :
                     selected_papers'[j] = selected_papers[IF j < i THEN j ELSE j + 1]
                /\ ev'.stop = "rerun"
        /\ \A i \in (Len(selected_papers) + 1)..(MaxStartList + 1) :
            LET r == ReadingList(Idle, [click |-> Key("remove", i, "")])
            IN  r.selected_papers = selected_papers /\ r.stop = "" ]_vars

\* the middle entry of a list of three was just removed
C11_Witness ==
    /\ ev.click = Key("remove", 2, "")
    /\ ev.stop = "rerun"
    /\ Len(selected_papers) = 2

\* the records search_openalex makes of works that carry an OpenAlex id
StrongRecords == {OpenAlexRecord(raw) : raw \in {RawW1a, RawW1b, RawW2}}
HasPaperId(list, paperId) == \E i \in 1..Len(list) : list[i].paperId = paperId

\* C12: two records with different OpenAlex paperIds are never taken for the
\* same paper, whatever their titles and years: the store update and the
\* display dedup keep both, and a selection made on one never resolves to
\* the other.
C12_StrongIdsNeverCollide ==
    /\ \A p, q \in StrongRecords :
         p.paperId # q.paperId =>
            /\ Identity(p) # Identity(q)
            /\ Unique(<<p, q>>) = <<p, q>>
            /\ HasPaperId(Upsert(all_loaded_papers, <<p, q>>), p.paperId)
            /\ HasPaperId(Upsert(all_loaded_papers, <<p, q>>), q.paperId)
            /\ ~Matches(q, OnlineQueueId(p))
            /\ ~Matches(q, Identity(p))
            /\ Resolve(<<q, p>>, OnlineQueueId(p)) = <<p>>
    /\ \A i, j \in 1..Len(all_loaded_papers) :
         (/\ i # j
          /\ IsOpenAlex(all_loaded_papers[i])
          /\ IsOpenAlex(all_loaded_papers[j])) =>
            all_loaded_papers[i].paperId # all_loaded_papers[j].paperId
    /\ (ev.cause.b = "view_scholar" /\ ev.selected_paper # <<>>) =>
            ev.selected_paper[1].paperId = ev.view[1].paperId

\* W1 and W2 with equal title and year are both stored, and the View button
\* of W2 led to the details of W2
C12_Witness ==
    /\ HasPaperId(all_loaded_papers, PyStr("W1"))
    /\ HasPaperId(all_loaded_papers, PyStr("W2"))
    /\ \E i, j \in 1..Len(all_loaded_papers) :
         /\ all_loaded_papers[i].paperId # all_loaded_papers[j].paperId
         /\ all_loaded_papers[i].title = all_loaded_papers[j].title
         /\ all_loaded_papers[i].year = all_loaded_papers[j].year
    /\ ev.cause.b = "view_scholar"
    /\ ev.selected_paper # <<>>
    /\ ev.selected_paper = ev.view
    /\ ev.view[1].paperId = PyStr("W2")

\* the record has neither a provider id nor a local id of its own
NoOwnId(p) == ~Truthy(p.paperId) /\ p.id = TitleYearHash(p.title, p.year)

\* C13: two different works without provider id and without local id that
\* share title and year get the same identity, the title/year hash, and the
\* store keeps one of them; a record is identified or matched by its
\* title/year hash only if it has no id of its own.
C13_WeakIdentityOnlyWithoutIds ==
    /\ LET n1 == OpenAlexRecord(RawN1)
           n2 == OpenAlexRecord(RawN2)
       IN  /\ n1 # n2
           /\ Identity(n1) = Identity(n2)
           /\ Identity(n1) = TitleYearHash(n1.title, n1.year)
           /\ Len(Upsert(all_loaded_papers, <<n1, n2>>))
                <= Len(all_loaded_papers) + 1
    /\ \A i \in 1..Len(all_loaded_papers) :
         Identity(all_loaded_papers[i]) = TitleYearIdentity(all_loaded_papers[i])
            => NoOwnId(all_loaded_papers[i])
    /\ (ev.selected_paper # <<>> /\ selected_paper_id.k = "int"
          /\ selected_paper_id = TitleYearIdentity(ev.selected_paper[1]))
            => NoOwnId(ev.selected_paper[1])

\* C14: load_local_papers gives different identities to the different
\* records of a papers.json, also when some records carry an explicit id
\* and others get their 1-based position.
C14_LocalIdentitiesDistinct ==
    result.f = "load_local_papers" =>
        \A i, j \in 1..Len(result.value) :
            i # j => /\ result.value[i].id # result.value[j].id
                     /\ Identity(result.value[i]) # Identity(result.value[j])

\* C15: for every record of the store, the identity of the store and display
\* dedup and of the cluster View, the ids of the two Review Queue Views and
\* of the resolution loop, the id of the feedback-summary dedup and of its
\* View buttons, and the feedback key all denote the same value.
C15_OneIdentityPerRecord ==
    \A i \in 1..Len(all_loaded_papers) :
        LET p == all_loaded_papers[i]
        IN  /\ LocalQueueId(p) = Identity(p)
            /\ OnlineQueueId(p) = Identity(p)
            /\ p.id = Identity(p)
            /\ FeedbackKey(p) = Str(Identity(p))

\* C16: when the details step resolves selected_paper_id and some candidate's
\* id is exactly equal to it, the resolved paper is a candidate whose id is
\* exactly equal; a candidate matching only by str(), by the paperId field
\* or by the title/year hash is returned only if there is no exact match.
C16_ExactMatchFirst ==
    (ev.details /\ ev.selected_paper # <<>>) =>
        LET all_papers == Candidates(Idle)
        IN  (\E i \in 1..Len(all_papers) :
                 OnlineQueueId(all_papers[i]) = selected_paper_id)
              => OnlineQueueId(ev.selected_paper[1]) = selected_paper_id

\* C17: every record an adapter returns (OpenAlex, local corpus, Semantic
\* Scholar) has no null field, a non-empty authors list, a non-empty title
\* and an integer year, also when the raw record carries a null or an empty
\* list for a field.
C17_NormalizedRecordIsPopulated ==
    result.f # "none" =>
        \A i \in 1..Len(result.value) :
            LET p == result.value[i]
            IN  /\ \A field \in DOMAIN p : p[field] # None /\ p[field] # Missing
                /\ p.authors.k = "list" /\ Truthy(p.authors)
                /\ p.title.k = "str" /\ Truthy(p.title)
                /\ p.year.k = "int"

C19_RankIsReordering ==
    result.f = "rank_papers_by_relevance" =>
        /\ Len(result.value) = Len(call.papers)
        /\ \A i \in 1..Len(call.papers) :
             Cardinality({j \in 1..Len(result.value) :
                             result.value[j] = call.papers[i]}) = 1

\* the model call raised, or its reply held nothing to parse
RankFailed == ~call.reply.ok \/ call.reply.nums = <<>>
ClusterFailed == ~call.reply.ok \/ call.reply.groups = <<>>

\* C20: when the model call raises or its reply has no parsable content,
\* rank_papers_by_relevance returns the input list in its order and
\* cluster_papers returns an empty mapping; neither raises.
C20_AdaptersDegrade ==
    /\ (result.f = "rank_papers_by_relevance" /\ RankFailed)
          => result.value = call.papers
    /\ (result.f = "cluster_papers" /\ ClusterFailed)
          => result.value = <<>>

\* a ranking of three papers whose model call raised
C20_Witness ==
    /\ result.f = "rank_papers_by_relevance"
    /\ ~call.reply.ok
    /\ Len(call.papers) = 3
    /\ result.value = call.papers

\* C23: in Search Online mode the render that follows a click on a View
\* button of the Review Queue ends with selected_paper_id equal to the id of
\* that paper and with the details pane showing it, whatever data sources
\* were used before; the switch-clearing step fires only on a render whose
\* data source differs from that of the previous render.
C23_OnlineViewKeepsSelection ==
    [][ /\ (/\ ev'.ds = Online
            /\ ev'.cause.b = "view_scholar"
            /\ ev'.stop = "") =>
               /\ selected_paper_id' = OnlineQueueId(ev'.view[1])
               /\ ev'.selected_paper = ev'.view
        /\ (/\ ev'.stop # "exception"
            /\ ev'.ds # last_data_source
            /\ last_data_source # "None") => ev'.ds # ev.ds ]_vars

\* the local papers matching the filter text of the Filter Papers box
Filtered ==
    IF local_search = "" THEN load_local_papers
    ELSE SelectSeq(load_local_papers, LAMBDA p : Lower(local_search) \in p.text)

\* C24: in Local Papers mode the ranked list and the clusters a render
\* displays were computed from the filtered list of that render: the Review
\* Queue shows exactly the papers matching the current filter, and every
\* cluster member index denotes a paper of the filtered list.
C24_LocalViewsFollowFilter ==
    (ev.ds = Local /\ ev.stop = "" /\ Filtered # <<>>) =>
        LET ranked == IF ranked_papers # <<>> THEN ranked_papers ELSE Unique(Filtered)
        IN  /\ RangeOf(ranked) = RangeOf(Filtered)
            /\ \A c \in 1..Len(clusters) :
                 \A i \in RangeOf(clusters[c].papers) : 0 <= i /\ i < Len(Filtered)

\* the Review Queue a Search Online render displays for its papers
OnlineQueue == Unique(IF ranked_papers # <<>> THEN ranked_papers ELSE current_papers)

\* C25: in Search Online mode the displayed Review Queue and the candidate
\* list of the details step hold only papers returned by an online search
\* for the current query, never local papers or the ranking of another list.
C25_OnlineListsAreOnline ==
    (ev.ds = Online /\ ev.stop = "") =>
        LET all_papers == Candidates(Idle)
        IN  /\ \A i \in 1..Len(all_papers) : IsOpenAlex(all_papers[i])
            /\ current_papers # <<>> =>
                 /\ RangeOf(OnlineQueue) = RangeOf(current_papers)
                 /\ RangeOf(all_papers) = RangeOf(current_papers)

\* C26: every member index of a cluster returned by cluster_papers is a
\* valid index into the list passed in, 0 <= i < len(papers), for every
\* reply, also one that mentions paper number 0 or a number above the list.
C26_ClusterIndicesValid ==
    result.f = "cluster_papers" =>
        \A c \in 1..Len(result.value) :
            \A i \in RangeOf(result.value[c].papers) :
                0 <= i /\ i < Len(call.papers)

Report(summary, q) ==
    [ relevant |-> \E i \in 1..Len(summary.relevant) : summary.relevant[i].paper = q,
      not_relevant |-> \E i \in 1..Len(summary.not_relevant) :
                           summary.not_relevant[i].paper = q,
      notes |-> {summary.relevant[i].note : i \in
                    {j \in 1..Len(summary.relevant) : summary.relevant[j].paper = q}}
                \cup {summary.not_relevant[i].note : i \in
                    {j \in 1..Len(summary.not_relevant) : summary.not_relevant[j].paper = q}} ]

\* C28: a Relevant, Not Relevant or Save Note click for the paper shown
\* never changes what the feedback summary reports (relevance, note) for a
\* paper with a different identity, for example for ids 5 and "5".
C28_FeedbackIsolatedPerPaper ==
    [][ (/\ ev'.click.b \in FeedbackClicks
         /\ ev'.selected_paper # <<>>
         /\ ev'.click.p = FeedbackKey(ev'.selected_paper[1])) =>
            \A i \in 1..Len(AllAvailable) :
                LET q == AllAvailable[i]
                IN  (/\ q.id # ev'.selected_paper[1].id
                     /\ Identity(q) # Identity(ev'.selected_paper[1])) =>
                        Report(get_papers_with_feedback(all_loaded_papers', cached_papers',
                                                        paper_feedback'), q)
                          = Report(Summary, q) ]_vars

\* C29: the render that follows a click on a Recent Searches entry displays
\* the cached papers of that query as its result list and makes no call to
\* the search API.
C29_RecentSearchShowsCache ==
    [][ (ev'.cause.b = "cache" /\ ev'.stop = "") =>
            /\ ev'.api = "none"
            /\ ev'.cause.p \in DOMAIN cached_papers'
            /\ current_papers' = cached_papers'[ev'.cause.p] ]_vars

\* C21: a render whose Semantic Scholar request failed (a status other than
\* 200, or an exception) leaves articles_data and selected_articles as they
\* were before the render.
C21_FailedSearchKeepsState ==
    [][ lit_ev'.api = "error"
          => /\ articles_data' = articles_data
             /\ selected_articles' = selected_articles ]_vars

\* C22: after a render whose load did not fail, every index in
\* selected_articles that the user ticked still denotes the article that
\* was ticked: it is within articles_data and the article at it is the one
\* the card showed when the box was ticked.
C22_SelectionSurvivesRefresh ==
    lit_ev.api # "error"
      => \A index \in DOMAIN picked :
             Contains(selected_articles, index)
               => /\ index < Len(articles_data)
                  /\ articles_data[index + 1] = picked[index]

\* C30: every relevance score the last render displayed was computed for
\* the article on whose card it is shown and for the research question
\* entered now.
C30_ScoreIsForArticleAndQuestion ==
    \A index \in DOMAIN lit_ev.scores :
        lit_ev.scores[index] =
            score_relevance(articles_data[index + 1], lit_widgets.research_question)

====
